---- MODULE Spec2Model ----
(***************************************************************************)
(* Model of the palette-coded region codec of ritematica (src/region.rs). *)
(* A 64-bit word of the packed array is modelled as the set of the        *)
(* positions of its 1 bits (bit 63 is the sign bit of the i64), so that   *)
(* shifts, masks and casts are computed bit for bit as the code does.     *)
(***************************************************************************)
EXTENDS Integers, Sequences, FiniteSets, TLC

VARIABLES size, block_state_palette, block_states, cells, novel, mutations, last,
          regions, files, input, output

vars == <<size, block_state_palette, block_states, cells, novel, mutations, last,
          regions, files, input, output>>

\* The fields of one Region and the history of the calls made on it.
regionVars == <<size, block_state_palette, block_states, cells, novel, mutations, last>>

\* The region map of a LitematicaFile, the file system, and the argument and
\* result of the last call that is not a Region method.
fileVars == <<regions, files, input, output>>

\* No LitematicaFile, path or resource string is in use.
IdleFile ==
  /\ regions = << >>
  /\ files = << >>
  /\ input = << >>
  /\ output = [op |-> "none"]

\* Number of palette appends one behaviour may perform.
MaxNovel == 2

\* Largest palette length handed to calc_required_bits in SpecBits.
MaxLen == 70

\* Number of palette entries one behaviour may edit through get_block_mut.
MaxMutations == 1

(***************************************************************************)
(* Bit-level helpers: i64 / u32 values as sets of bit positions.          *)
(***************************************************************************)
BIT_TO_LONG_SHIFT == 6

WordBits == 2 ^ BIT_TO_LONG_SHIFT

BitIdx == 0 .. (WordBits - 1)

Max(a, b) == IF a >= b THEN a ELSE b

Abs(n) == IF n < 0 THEN 0 - n ELSE n

\* value & bitmask on u32: the bits of the number value selected by bitmask.
AndMask(value, bitmask) == {i \in bitmask : (value \div (2 ^ i)) % 2 = 1}

RECURSIVE ToNat(_)
\* The number whose bit pattern is the set S (S within 0..30).
ToNat(S) ==
  IF S = {} THEN 0
  ELSE LET i == CHOOSE j \in S : TRUE IN (2 ^ i) + ToNat(S \ {i})

\* i64 >> s : arithmetic shift, the sign bit fills the vacated positions.
ShrI64(w, s) ==
  {i - s : i \in {j \in w : j >= s}}
    \cup (IF (WordBits - 1) \in w THEN (WordBits - s) .. (WordBits - 1) ELSE {})

\* i64 << s : bits shifted past bit 63 are lost.
ShlI64(w, s) == {i + s : i \in {j \in w : j + s <= WordBits - 1}}

\* u32 >> s : logical shift.
ShrU32(v, s) == {i - s : i \in {j \in v : j >= s}}

\* `as u32` of an i64: the low 32 bits.
AsU32(w) == w \cap (0 .. 31)

\* !w on an i64.
NotI64(w) == BitIdx \ w

\* (1 << n) - 1 : the n low bits.
LowMask(n) == 0 .. (n - 1)

(***************************************************************************)
(* Pure functions of Region.                                              *)
(***************************************************************************)
RECURSIVE NextPow2From(_, _)
NextPow2From(n, p) == IF p >= n THEN p ELSE NextPow2From(n, 2 * p)

\* usize::next_power_of_two : the smallest power of two >= n (1 for n = 0).
next_power_of_two(n) == NextPow2From(n, 1)

RECURSIVE trailing_zeros(_)
\* usize::trailing_zeros for n > 0.
trailing_zeros(n) == IF n % 2 = 1 THEN 0 ELSE 1 + trailing_zeros(n \div 2)

\* Mutant: a power of two counts only above four, so the fifth palette entry
\* is pushed without repacking.
is_power_of_two_above4(n) == n > 4 /\ next_power_of_two(n) = n

\* Mutant: the test is made on the length the palette has after the append,
\* so the array is repacked one entry early.
is_power_of_two_after_append(n) == next_power_of_two(n + 1) = n + 1

\* Mutant: no length counts as a power of two, so set_block never repacks.
is_power_of_two_never(n) == FALSE

\* usize::is_power_of_two.
is_power_of_two(n) == n > 0 /\ next_power_of_two(n) = n

\* Mutant: the width grows as soon as the length reaches a power of two.
calc_required_bits_early(palette) ==
  Max(trailing_zeros(next_power_of_two(Len(palette) + 1)), 2)

calc_required_bits(palette) ==
  Max(trailing_zeros(next_power_of_two(Len(palette))), 2)

\* (1 << bits) - 1 as a u32 bit pattern.
MaskOf(bits) == LowMask(bits)

InBounds(sz, coords) ==
  /\ coords.x >= 0 /\ coords.x < Abs(sz.x)
  /\ coords.y >= 0 /\ coords.y < Abs(sz.y)
  /\ coords.z >= 0 /\ coords.z < Abs(sz.z)

\* The linear index of in-bounds coordinates (the asserts are InBounds).
\* Mutant: the size components are used with their signs.
get_3d_index_signed(sz, coords) ==
  LET size_x == sz.x
      size_layer == size_x * sz.z
  IN coords.y * size_layer + coords.z * size_x + coords.x

\* Mutant: a row of cells is taken to be |size.z| long.
get_3d_index_zrow(sz, coords) ==
  LET size_x == Abs(sz.x)
      size_layer == size_x * Abs(sz.z)
  IN coords.y * size_layer + coords.z * Abs(sz.z) + coords.x

get_3d_index(sz, coords) ==
  LET size_x == Abs(sz.x)
      size_layer == size_x * Abs(sz.z)
  IN coords.y * size_layer + coords.z * size_x + coords.x

Volume(sz) == Abs(sz.x) * Abs(sz.y) * Abs(sz.z)

\* The palette index read at block_index; a number.
get_palette_index(states, block_index, required_bits, bitmask) ==
  LET bit_position == block_index * required_bits
      word_index == bit_position \div WordBits
      end_word_index == ((block_index + 1) * required_bits - 1) \div WordBits
      index_in_word == bit_position % WordBits
  IN IF word_index = end_word_index
     THEN ToNat(AsU32(ShrI64(states[word_index + 1], index_in_word)) \cap bitmask)
     ELSE LET first_bits == WordBits - index_in_word
          IN ToNat((AsU32(ShrI64(states[word_index + 1], index_in_word)) \cap bitmask)
                   \cup (AsU32(ShlI64(states[end_word_index + 1], first_bits))
                           \cap bitmask))

\* TRUE when get_palette_index indexes the word array within its length.
WordsInRange(states, block_index, required_bits) ==
  ((block_index + 1) * required_bits - 1) \div WordBits < Len(states)

\* Mutant: the new bits are or-ed in without clearing the old field.
set_block_index_noclear(states, block_index, value, required_bits, bitmask) ==
  LET bit_position == block_index * required_bits
      word_index == bit_position \div WordBits
      end_word_index == ((block_index + 1) * required_bits - 1) \div WordBits
      index_in_word == bit_position % WordBits
      val == AndMask(value, bitmask)
      s1 == [states EXCEPT ![word_index + 1] = @ \cup ShlI64(val, index_in_word)]
  IN IF word_index # end_word_index
     THEN [s1 EXCEPT ![end_word_index + 1] =
             @ \cup ShrU32(val, WordBits - index_in_word)]
     ELSE s1

\* Mutant: the high word is masked with the full width, not with the number
\* of bits that remain to be written.
set_block_index_widemask(states, block_index, value, required_bits, bitmask) ==
  LET bit_position == block_index * required_bits
      word_index == bit_position \div WordBits
      end_word_index == ((block_index + 1) * required_bits - 1) \div WordBits
      index_in_word == bit_position % WordBits
      val == AndMask(value, bitmask)
      s1 == [states EXCEPT ![word_index + 1] =
               (@ \cap NotI64(ShlI64(bitmask, index_in_word)))
                 \cup ShlI64(val, index_in_word)]
  IN IF word_index # end_word_index
     THEN [s1 EXCEPT ![end_word_index + 1] =
             (@ \cap NotI64(LowMask(required_bits)))
               \cup ShrU32(val, WordBits - index_in_word)]
     ELSE s1

\* Mutant: the high word of a straddling write is assigned the carried bits,
\* its other bits are lost.
set_block_index_assign_high(states, block_index, value, required_bits, bitmask) ==
  LET bit_position == block_index * required_bits
      word_index == bit_position \div WordBits
      end_word_index == ((block_index + 1) * required_bits - 1) \div WordBits
      index_in_word == bit_position % WordBits
      val == AndMask(value, bitmask)
      s1 == [states EXCEPT ![word_index + 1] =
               (@ \cap NotI64(ShlI64(bitmask, index_in_word)))
                 \cup ShlI64(val, index_in_word)]
  IN IF word_index # end_word_index
     THEN [s1 EXCEPT ![end_word_index + 1] = ShrU32(val, WordBits - index_in_word)]
     ELSE s1

\* The word array after writing value at block_index.
set_block_index(states, block_index, value, required_bits, bitmask) ==
  LET bit_position == block_index * required_bits
      word_index == bit_position \div WordBits
      end_word_index == ((block_index + 1) * required_bits - 1) \div WordBits
      index_in_word == bit_position % WordBits
      val == AndMask(value, bitmask)
      lo == (states[word_index + 1] \cap NotI64(ShlI64(bitmask, index_in_word)))
              \cup ShlI64(val, index_in_word)
      s1 == [states EXCEPT ![word_index + 1] = lo]
  IN IF word_index # end_word_index
     THEN LET bits_written == WordBits - index_in_word
              bits_to_write == required_bits - bits_written
          IN [s1 EXCEPT ![end_word_index + 1] =
                (s1[end_word_index + 1] \cap NotI64(LowMask(bits_to_write)))
                  \cup ShrU32(val, bits_written)]
     ELSE s1

RECURSIVE ResizeLoop(_, _, _, _, _, _, _, _)
\* The loop `for i in 0..volume` of resize_block_states, from cell i on.
ResizeLoop(old, new, i, volume, old_bits, old_mask, new_bits, new_mask) ==
  IF i >= volume THEN new
  ELSE ResizeLoop(old,
                  set_block_index(new, i,
                                  get_palette_index(old, i, old_bits, old_mask),
                                  new_bits, new_mask),
                  i + 1, volume, old_bits, old_mask, new_bits, new_mask)

\* Mutant: the new array starts from the old words instead of zeros.
resize_block_states_dirty(sz, states, old_bits, old_mask, new_bits, new_mask) ==
  LET volume == Volume(sz)
      required_bits_per_block == (volume * new_bits + 63) \div WordBits
      new_blockstates == [k \in 1 .. required_bits_per_block |->
                            IF k <= Len(states) THEN states[k] ELSE {}]
  IN ResizeLoop(states, new_blockstates, 0, volume, old_bits, old_mask,
                new_bits, new_mask)

\* The word array that resize_block_states installs.
resize_block_states(sz, states, old_bits, old_mask, new_bits, new_mask) ==
  LET volume == Volume(sz)
      required_bits_per_block == (volume * new_bits + 63) \div WordBits
      new_blockstates == [k \in 1 .. required_bits_per_block |-> {}]
  IN ResizeLoop(states, new_blockstates, 0, volume, old_bits, old_mask,
                new_bits, new_mask)

\* Mutant: the search finds nothing, every block is appended.
PositionNone(palette, block) == 0

\* The index of the first palette entry equal to block, 0 when there is none
\* (1-based: Iterator::position + 1).
Position(palette, block) ==
  IF \E k \in 1 .. Len(palette) : palette[k] = block
  THEN CHOOSE k \in 1 .. Len(palette) :
         /\ palette[k] = block
         /\ \A j \in 1 .. (k - 1) : palette[j] # block
  ELSE 0

(***************************************************************************)
(* Block states, coordinates and the regions the behaviours start from.   *)
(***************************************************************************)
\* structure.rs BlockState: a name and a property map (a set of key/value
\* pairs with unique keys); equality is structural.
BS(n, p) == [name |-> n, properties |-> p]

NoProps == {}

FacingDown == {<<"facing", "down">>}

FacingUp == {<<"facing", "up">>}

\* The block states a caller writes, in a fixed order.
Universe ==
  << BS("air", NoProps), BS("stone", NoProps), BS("piston", FacingDown),
     BS("piston", FacingUp), BS("stone", FacingDown), BS("air", FacingUp),
     BS("piston", NoProps), BS("stone", FacingUp), BS("air", FacingDown) >>

Coord(a, b, c) == [x |-> a, y |-> b, z |-> c]

\* Every in-bounds coordinate of a region of size sz.
AllCoords(sz) ==
  {Coord(a, b, c) : a \in 0 .. (Abs(sz.x) - 1), b \in 0 .. (Abs(sz.y) - 1),
                    c \in 0 .. (Abs(sz.z) - 1)}

\* Coordinates with one component outside [0, |size.c|): one below zero
\* and one at the size, on an axis that depends on the region.
OutOfBoundsCoords(sz) ==
  IF Abs(sz.x) = 1 THEN {Coord(0 - 1, 0, 0), Coord(0, Abs(sz.y), 0)}
  ELSE IF Abs(sz.y) = 1 THEN {Coord(0, 0 - 1, 0), Coord(0, 0, Abs(sz.z))}
  ELSE {Coord(0, 0, 0 - 1), Coord(Abs(sz.x), 0, 0)}

\* Well-formed regions as deserialization produces them, each with the
\* coordinates and block states its caller uses:
\*  - 1x1x1, palette [air], word 0;
\*  - 2x1x2, four palette entries (2 bits), cells 0..3 hold 0..3, the
\*    unaddressed bits 8 and 63 of the word are set;
\*  - 2x3x4 with negative x and z size, seven palette entries (3 bits, cell 21
\*    straddles words 0 and 1), cell 0 holds 3, cell 21 holds 6, and the
\*    unaddressed bits 8 and 63 of word 1 are set; its caller writes the
\*    entries 0, 1 and 6 and two states that are not in the palette;
\*  - 11x2x1 with negative y size, four palette entries (2 bits, one word;
\*    at 3 bits the array takes two words and the last cell, 21, straddles
\*    them), cell 0 holds 1, cell 21 holds 2, the unaddressed bits 44 and 63
\*    are set.
Regions ==
  { [size |-> Coord(1, 1, 1),
     palette |-> SubSeq(Universe, 1, 1),
     states |-> << {} >>,
     targets |-> AllCoords(Coord(1, 1, 1)),
     inputs |-> {Universe[k] : k \in 1 .. 9}],
    [size |-> Coord(2, 1, 2),
     palette |-> SubSeq(Universe, 1, 4),
     states |-> << {2, 5, 6, 7, 8, 63} >>,
     targets |-> {Coord(0, 0, 0), Coord(1, 0, 1)},
     inputs |-> {Universe[k] : k \in 1 .. 6}],
    [size |-> Coord(0 - 2, 3, 0 - 4),
     palette |-> SubSeq(Universe, 1, 7),
     states |-> << {0, 1}, {0, 1, 8, 63} >>,
     targets |-> {Coord(0, 2, 2), Coord(1, 2, 2), Coord(0, 2, 3)},
     inputs |-> {Universe[k] : k \in {1, 2, 7, 8, 9}}],
    [size |-> Coord(11, 0 - 2, 1),
     palette |-> SubSeq(Universe, 1, 4),
     states |-> << {0, 43, 44, 63} >>,
     targets |-> {Coord(9, 1, 0), Coord(10, 1, 0)},
     inputs |-> {Universe[k] : k \in {1, 2, 4, 5, 6}}] }

RegionOf(sz) == CHOOSE r \in Regions : r.size = sz

\* The positions and block states handed to the operations.
Positions(sz) == RegionOf(sz).targets \cup OutOfBoundsCoords(sz)

Inputs(sz) == RegionOf(sz).inputs

(***************************************************************************)
(* Region operations.                                                     *)
(***************************************************************************)
Panic == [ok |-> FALSE]

Ok(b) == [ok |-> TRUE, block |-> b]

\* get_block: the palette entry of the cell, or a panic (failed bounds
\* assert, word index or palette index out of range).
get_block(sz, palette, states, position) ==
  IF ~InBounds(sz, position) THEN Panic
  ELSE LET index == get_3d_index(sz, position)
           required_bits == calc_required_bits(palette)
           mask == MaskOf(required_bits)
       IN IF ~WordsInRange(states, index, required_bits) THEN Panic
          ELSE LET palette_index == get_palette_index(states, index, required_bits, mask)
               IN IF palette_index < Len(palette)
                  THEN Ok(palette[palette_index + 1])
                  ELSE Panic

\* get_block on the current region.
GetBlock(position) == get_block(size, block_state_palette, block_states, position)

\* What the last call was: the operation, its position, how it ended, whether
\* it repacked the array, the width it used, and whether the block it was
\* given equals the one get_block returned at that position before the call.
Record(op, position, result, widened, bits, same) ==
  [op |-> op, pos |-> position, result |-> result, widened |-> widened,
   bits |-> bits, same |-> same]

\* set_block(position, block): the whole method, the repacking included.
set_block(position, block) ==
  IF ~InBounds(size, position)
  THEN /\ last' = Record("set_block", position, "panic", FALSE, 0, FALSE)
       /\ UNCHANGED <<size, block_state_palette, block_states, cells, novel,
                      mutations>>
  ELSE
    LET index == get_3d_index(size, position)
        bits == calc_required_bits(block_state_palette)
        mask == MaskOf(bits)
        found == Position(block_state_palette, block)
        len == Len(block_state_palette)
        widen == found = 0 /\ is_power_of_two(len) /\ len >= 4
        new_bits == IF widen THEN bits + 1 ELSE bits
        new_mask == MaskOf(new_bits)
        resized == IF widen
                   THEN resize_block_states(size, block_states, bits, mask,
                                            new_bits, new_mask)
                   ELSE block_states
        palette_index == IF found = 0 THEN len ELSE found - 1
        pushed == IF found = 0 THEN Append(block_state_palette, block)
                  ELSE block_state_palette
    IN /\ found = 0 => novel < MaxNovel
       /\ novel' = IF found = 0 THEN novel + 1 ELSE novel
       /\ block_state_palette' = pushed
       /\ UNCHANGED <<size, mutations>>
       /\ IF WordsInRange(resized, index, new_bits)
          THEN /\ block_states' = set_block_index(resized, index, palette_index,
                                                  new_bits, new_mask)
               /\ cells' = [cells EXCEPT ![position] = block]
               /\ last' = Record("set_block", position, "ok", widen, new_bits,
                                GetBlock(position) = Ok(block))
          ELSE /\ block_states' = resized
               /\ UNCHANGED cells
               /\ last' = Record("set_block", position, "panic", widen, new_bits,
                                FALSE)

\* A panic ends the program: no call follows it.
SetBlock ==
  /\ last.op # "calc_required_bits"
  /\ last.result # "panic"
  /\ \E position \in Positions(size), block \in Inputs(size) :
       set_block(position, block)
  /\ UNCHANGED fileVars

Init ==
  \E r \in Regions :
    /\ size = r.size
    /\ block_state_palette = r.palette
    /\ block_states = r.states
    /\ cells = [c \in AllCoords(r.size) |->
                  get_block(r.size, r.palette, r.states, c).block]
    /\ novel = 0
    /\ mutations = 0
    /\ last = Record("new", Coord(0, 0, 0), "ok", FALSE, 0, FALSE)
    /\ IdleFile

Next == SetBlock

Spec == Init /\ [][Next]_vars

(***************************************************************************)
(* get_block_mut and the BlockState mutators applied to what it returns.  *)
(***************************************************************************)
\* BlockState::set_name.
set_name(b, name) == [b EXCEPT !.name = name]

\* BlockState::set_properties: clears the map, then inserts the new pairs.
set_properties(b, properties) == [b EXCEPT !.properties = properties]

\* The edits a caller applies to the block it borrowed.
Edits ==
  {[kind |-> "set_name", arg |-> "stone"],
   [kind |-> "set_properties", arg |-> FacingDown]}

ApplyEdit(b, e) ==
  IF e.kind = "set_name" THEN set_name(b, e.arg) ELSE set_properties(b, e.arg)

\* get_block_mut(position) followed by one mutator call on the returned
\* reference: the palette slot of the cell is edited in place.
get_block_mut(position, e) ==
  LET required_bits == calc_required_bits(block_state_palette)
      mask == MaskOf(required_bits)
      index == get_3d_index(size, position)
      palette_index == get_palette_index(block_states, index, required_bits, mask)
  IN IF /\ InBounds(size, position)
        /\ WordsInRange(block_states, index, required_bits)
        /\ palette_index < Len(block_state_palette)
     THEN /\ block_state_palette' =
               [block_state_palette EXCEPT ![palette_index + 1] = ApplyEdit(@, e)]
          /\ mutations' = mutations + 1
          /\ last' = Record("get_block_mut", position, "ok", FALSE, required_bits, FALSE)
          /\ UNCHANGED <<size, block_states, cells, novel>>
     ELSE /\ last' = Record("get_block_mut", position, "panic", FALSE, 0, FALSE)
          /\ UNCHANGED <<size, block_state_palette, block_states, cells, novel,
                         mutations>>

GetBlockMut ==
  /\ last.op # "calc_required_bits"
  /\ last.result # "panic"
  /\ mutations < MaxMutations
  /\ \E position \in Positions(size), e \in Edits : get_block_mut(position, e)
  /\ UNCHANGED fileVars

\* The region of four cells.
InitMut == Init /\ Volume(size) = 4

NextMut == SetBlock \/ GetBlockMut

SpecMut == InitMut /\ [][NextMut]_vars

\* The region of 24 cells, whose cell 21 straddles two words.
InitMutStraddle == Init /\ Volume(size) = 24

SpecMutStraddle == InitMutStraddle /\ [][NextMut]_vars

(***************************************************************************)
(* find_positions: the search of a region by a BlockStatePattern.         *)
(***************************************************************************)
\* The patterns a caller searches with: a BlockState, which matches its
\* equals, and a closure, here the test of the name.
Patterns ==
  {[kind |-> "state", state |-> Universe[1]],
   [kind |-> "state", state |-> Universe[2]],
   [kind |-> "fn", name |-> "piston"]}

\* BlockStatePattern::matches for the two implementations.
matches(pattern, block_state) ==
  IF pattern.kind = "state" THEN pattern.state = block_state
  ELSE block_state.name = pattern.name

\* The i-th coordinate of the enumeration: y outermost, then z, x innermost.
CoordAt(sz, i) ==
  Coord(i % Abs(sz.x), i \div (Abs(sz.x) * Abs(sz.z)), (i \div Abs(sz.x)) % Abs(sz.z))

RECURSIVE FindFrom(_, _, _, _, _, _)
\* The enumeration from its i-th coordinate on, acc being what it has
\* yielded: each cell is probed with get_block, whose panic ends it.
FindFrom(sz, palette, states, pattern, i, acc) ==
  IF i >= Volume(sz) THEN [yielded |-> acc, panicked |-> FALSE]
  ELSE LET c == CoordAt(sz, i)
           b == get_block(sz, palette, states, c)
       IN IF ~b.ok THEN [yielded |-> acc, panicked |-> TRUE]
          ELSE FindFrom(sz, palette, states, pattern, i + 1,
                        IF matches(pattern, b.block) THEN Append(acc, c) ELSE acc)

\* find_positions(pattern), collected.
find_positions(sz, palette, states, pattern) ==
  FindFrom(sz, palette, states, pattern, 0, << >>)

\* The caller collects find_positions(pattern) and makes no call after it.
FindPositions ==
  /\ output.op = "none"
  /\ last.result # "panic"
  /\ \E pattern \in Patterns :
       output' = [op |-> "find_positions", pattern |-> pattern,
                  result |-> find_positions(size, block_state_palette,
                                            block_states, pattern)]
  /\ UNCHANGED <<regions, files, input>>
  /\ UNCHANGED regionVars

\* The regions of 4 and of 24 cells.
InitFind == Init /\ Volume(size) \in {4, 24}

NextFind == (output.op = "none" /\ SetBlock) \/ FindPositions

SpecFind == InitFind /\ [][NextFind]_vars

(***************************************************************************)
(* set_block_index on word arrays of two words, at every width up to      *)
(* MaxBits, every cell of the array and every value of the width.         *)
(***************************************************************************)
\* Largest width handed to set_block_index in SpecWrite.
MaxBits == 5

\* Words all zero, all one, and with every other bit set.
WordPatterns == {{}, BitIdx, {b \in BitIdx : b % 2 = 0}}

\* One call set_block_index(&mut block_states, index, value, bits, mask) with
\* mask = (1 << bits) - 1; output keeps the arguments and the array as it was.
SetBlockIndex ==
  /\ output.op = "none"
  /\ \E bits \in 2 .. MaxBits :
       \E index \in 0 .. (((2 * WordBits) \div bits) - 1), value \in 0 .. (2 ^ bits - 1) :
         /\ block_states' = set_block_index(block_states, index, value, bits, MaskOf(bits))
         /\ output' = [op |-> "set_block_index", index |-> index, value |-> value,
                       bits |-> bits, before |-> block_states]
  /\ UNCHANGED <<size, block_state_palette, cells, novel, mutations, last>>
  /\ UNCHANGED <<regions, files, input>>

InitWrite ==
  /\ size = Coord(1, 1, 1)
  /\ block_state_palette = SubSeq(Universe, 1, 1)
  /\ block_states \in [1 .. 2 -> WordPatterns]
  /\ cells = [c \in AllCoords(Coord(1, 1, 1)) |-> Universe[1]]
  /\ novel = 0
  /\ mutations = 0
  /\ last = Record("new", Coord(0, 0, 0), "ok", FALSE, 0, FALSE)
  /\ IdleFile

NextWrite == SetBlockIndex

SpecWrite == InitWrite /\ [][NextWrite]_vars

(***************************************************************************)
(* get_3d_index on regions of every size up to MaxSide per axis, of       *)
(* either sign.                                                           *)
(***************************************************************************)
\* Largest magnitude of a size component in SpecIndex.
MaxSide == 3

Sides == {n \in (0 - MaxSide) .. MaxSide : n # 0}

\* One call get_3d_index(coords): the index, or the panic of an assert.
GetIndex ==
  /\ output.op = "none"
  /\ \E coords \in AllCoords(size) \cup {Coord(0 - 1, 0, 0), Coord(0, Abs(size.y), 0)} :
       output' = IF InBounds(size, coords)
                 THEN [op |-> "get_3d_index", coords |-> coords, result |-> "ok",
                       index |-> get_3d_index(size, coords)]
                 ELSE [op |-> "get_3d_index", coords |-> coords, result |-> "panic",
                       index |-> 0]
  /\ UNCHANGED regionVars
  /\ UNCHANGED <<regions, files, input>>

\* A region of any size, one palette entry, every cell holding index 0.
InitIndex ==
  /\ size \in {Coord(a, b, c) : a \in Sides, b \in Sides, c \in Sides}
  /\ block_state_palette = SubSeq(Universe, 1, 1)
  /\ block_states = [k \in 1 .. ((Volume(size) * 2 + 63) \div WordBits) |-> {}]
  /\ cells = [c \in AllCoords(size) |-> Universe[1]]
  /\ novel = 0
  /\ mutations = 0
  /\ last = Record("new", Coord(0, 0, 0), "ok", FALSE, 0, FALSE)
  /\ IdleFile

NextIndex == GetIndex

SpecIndex == InitIndex /\ [][NextIndex]_vars

(***************************************************************************)
(* calc_required_bits on palettes of every length up to MaxLen.           *)
(***************************************************************************)
InitBits ==
  \E n \in 0 .. MaxLen :
    /\ size = Coord(1, 1, 1)
    /\ block_state_palette = [k \in 1 .. n |-> Universe[1]]
    /\ block_states = << >>
    /\ cells = [c \in AllCoords(size) |-> Universe[1]]
    /\ novel = 0
    /\ mutations = 0
    /\ last = Record("new", Coord(0, 0, 0), "ok", FALSE, 0, FALSE)
    /\ IdleFile

CalcRequiredBits ==
  /\ last.op = "new"
  /\ last' = Record("calc_required_bits", Coord(0, 0, 0), "ok", FALSE,
                    calc_required_bits(block_state_palette), FALSE)
  /\ UNCHANGED <<size, block_state_palette, block_states, cells, novel, mutations>>
  /\ UNCHANGED fileVars

NextBits == CalcRequiredBits

SpecBits == InitBits /\ [][NextBits]_vars

(***************************************************************************)
(* LitematicaFile::write and read (src/file.rs) on a file system.         *)
(* A path is a sequence of pieces: the separator "/", the dot ".", and    *)
(* the words "a" and "litematic", which stand for themselves.             *)
(***************************************************************************)
\* Longest path, in pieces.
MaxPath == 4

PathPieces == {"a", "litematic", ".", "/"}

\* Every sequence over A of length at most n.
Strings(A, n) == UNION {[1 .. k -> A] : k \in 0 .. n}

Paths == Strings(PathPieces, MaxPath)

None == [some |-> FALSE]

Some(v) == [some |-> TRUE, value |-> v]

\* The indices of p that hold the piece c.
IndicesOf(p, c) == {i \in 1 .. Len(p) : p[i] = c}

RECURSIVE SplitSeq(_, _)
\* str::split : the pieces of p between the occurrences of c, in order.
SplitSeq(p, c) ==
  IF IndicesOf(p, c) = {} THEN << p >>
  ELSE LET i == CHOOSE j \in IndicesOf(p, c) : \A k \in IndicesOf(p, c) : j <= k
       IN << SubSeq(p, 1, i - 1) >> \o SplitSeq(SubSeq(p, i + 1, Len(p)), c)

\* Path::file_name : the last component of the path when it is a normal
\* one.  Components drops empty segments and every "." segment but a
\* leading one; "." , ".." and the root are not normal components.
file_name(path) ==
  LET segs == SplitSeq(path, "/")
      kept == {i \in 1 .. Len(segs) :
                 segs[i] # << >> /\ (segs[i] # << "." >> \/ i = 1)}
  IN IF kept = {} THEN None
     ELSE LET i == CHOOSE j \in kept : \A k \in kept : k <= j
          IN IF segs[i] \in {<< "." >>, << ".", "." >>} THEN None ELSE Some(segs[i])

\* Path::extension : the part of the file name after its last ".", when the
\* file name has a "." that is not its first character.
extension(path) ==
  LET name == file_name(path)
  IN IF ~name.some THEN None
     ELSE LET dots == IndicesOf(name.value, ".")
          IN IF dots = {} THEN None
             ELSE LET i == CHOOSE j \in dots : \A k \in dots : k <= j
                  IN IF i = 1 THEN None
                     ELSE Some(SubSeq(name.value, i + 1, Len(name.value)))

\* The file system after File::create(path) and the write of content.
Store(fs, path, content) ==
  [q \in (DOMAIN fs) \cup {path} |-> IF q = path THEN content ELSE fs[q]]

\* The test of lines 55-56: the path has an extension and it is not
\* "litematic".
extension_rejected(path) ==
  extension(path).some /\ extension(path).value # << "litematic" >>

\* write(path): the extension test, then File::create (which truncates, and
\* fails when the operating system refuses), then the gzip/NBT encoding into
\* the file (which may fail half way).
write(path) ==
  IF extension_rejected(path)
  THEN /\ output' = [op |-> "write", result |-> "Io", kind |-> "InvalidInput"]
       /\ UNCHANGED files
  ELSE \/ /\ output' = [op |-> "write", result |-> "Io", kind |-> "create"]
          /\ UNCHANGED files
       \/ /\ file_name(path).some
          /\ \/ /\ output' = [op |-> "write", result |-> "NBT", kind |-> "encode"]
                /\ files' = Store(files, path, "partial")
             \/ /\ output' = [op |-> "write", result |-> "ok", kind |-> "none"]
                /\ files' = Store(files, path, "written")

Write ==
  /\ output.op \in {"none", "write", "read"}
  /\ input \in Paths
  /\ write(input)
  /\ UNCHANGED <<regions, input>>
  /\ UNCHANGED regionVars

\* read(path): File::open, then the gzip/NBT decoding; the path's extension
\* is not looked at.
read(path) ==
  /\ output' = IF path \notin DOMAIN files
               THEN [op |-> "read", result |-> "Io", kind |-> "open"]
               ELSE IF files[path] = "partial"
               THEN [op |-> "read", result |-> "NBT", kind |-> "decode"]
               ELSE [op |-> "read", result |-> "ok", kind |-> "none"]
  /\ UNCHANGED files

Read ==
  /\ output.op \in {"none", "write", "read"}
  /\ input \in Paths
  /\ read(input)
  /\ UNCHANGED <<regions, input>>
  /\ UNCHANGED regionVars

\* A region that no call touches.
IdleRegion ==
  /\ size = Coord(1, 1, 1)
  /\ block_state_palette = SubSeq(Universe, 1, 1)
  /\ block_states = << {} >>
  /\ cells = [c \in AllCoords(Coord(1, 1, 1)) |-> Universe[1]]
  /\ novel = 0
  /\ mutations = 0
  /\ last = Record("new", Coord(0, 0, 0), "ok", FALSE, 0, FALSE)

\* The caller holds a path; a file written earlier may exist under it.
InitFile ==
  /\ IdleRegion
  /\ regions = << >>
  /\ input \in Paths
  /\ files \in {<< >>, [q \in {input} |-> "old"]}
  /\ output = [op |-> "none"]

NextFile == Write \/ Read

SpecFile == InitFile /\ [][NextFile]_vars

(***************************************************************************)
(* The region map of a LitematicaFile (src/file.rs).                      *)
(***************************************************************************)
RegionNames == {"a", "b", "c"}

\* The fields of a Region that the codec uses.
RegionValue(r) ==
  [size |-> r.size, block_state_palette |-> r.palette, block_states |-> r.states]

RegionValues == {RegionValue(r) : r \in Regions}

\* HashMap::remove.
MapRemove(m, k) == [n \in (DOMAIN m) \ {k} |-> m[n]]

\* HashMap::insert.
MapInsert(m, k, v) == [n \in (DOMAIN m) \cup {k} |-> IF n = k THEN v ELSE m[n]]

\* Mutant: the region is inserted under the new name before the old name is
\* removed.
rename_region_insert_first(m, old_name, new_name) ==
  IF old_name \in DOMAIN m
  THEN MapRemove(MapInsert(m, new_name, m[old_name]), old_name)
  ELSE m

\* The map after rename_region(old_name, new_name).
rename_region(m, old_name, new_name) ==
  LET removed == IF old_name \in DOMAIN m THEN Some(m[old_name]) ELSE None
      m1 == MapRemove(m, old_name)
  IN IF removed.some THEN MapInsert(m1, new_name, removed.value) ELSE m1

\* One call of rename_region; output records the names and whether each was
\* a key before the call.
RenameRegion ==
  /\ output.op \in {"none", "rename_region"}
  /\ \E old_name \in RegionNames, new_name \in RegionNames :
       /\ regions' = rename_region(regions, old_name, new_name)
       /\ output' = [op |-> "rename_region", old |-> old_name, new |-> new_name,
                     found |-> old_name \in DOMAIN regions,
                     replaced |-> new_name \in DOMAIN regions]
  /\ UNCHANGED <<files, input>>
  /\ UNCHANGED regionVars

\* A file as read: any set of names, each with a region.
InitRegions ==
  /\ IdleRegion
  /\ \E names \in SUBSET RegionNames : regions \in [names -> RegionValues]
  /\ files = << >>
  /\ input = << >>
  /\ output = [op |-> "none"]

NextRegions == RenameRegion

SpecRegions == InitRegions /\ [][NextRegions]_vars

(***************************************************************************)
(* Region methods called on the regions of one file, each borrowed from   *)
(* the map by get_region_mut.                                             *)
(***************************************************************************)
\* Number of Region method calls one behaviour makes on the file's regions.
MaxCalls == 3

\* set_block on the region r: whether it returned, and the region it leaves.
set_block_on(r, position, block) ==
  IF ~InBounds(r.size, position) THEN [ok |-> FALSE, region |-> r]
  ELSE
    LET index == get_3d_index(r.size, position)
        bits == calc_required_bits(r.block_state_palette)
        mask == MaskOf(bits)
        found == Position(r.block_state_palette, block)
        len == Len(r.block_state_palette)
        widen == found = 0 /\ is_power_of_two(len) /\ len >= 4
        new_bits == IF widen THEN bits + 1 ELSE bits
        new_mask == MaskOf(new_bits)
        resized == IF widen
                   THEN resize_block_states(r.size, r.block_states, bits, mask,
                                            new_bits, new_mask)
                   ELSE r.block_states
        palette_index == IF found = 0 THEN len ELSE found - 1
        pushed == IF found = 0 THEN Append(r.block_state_palette, block)
                  ELSE r.block_state_palette
    IN IF WordsInRange(resized, index, new_bits)
       THEN [ok |-> TRUE,
             region |-> [size |-> r.size, block_state_palette |-> pushed,
                         block_states |-> set_block_index(resized, index, palette_index,
                                                          new_bits, new_mask)]]
       ELSE [ok |-> FALSE,
             region |-> [size |-> r.size, block_state_palette |-> pushed,
                         block_states |-> resized]]

\* get_block_mut on the region r followed by one mutator call on the
\* returned reference.
get_block_mut_on(r, position, e) ==
  LET required_bits == calc_required_bits(r.block_state_palette)
      mask == MaskOf(required_bits)
      index == get_3d_index(r.size, position)
      palette_index == get_palette_index(r.block_states, index, required_bits, mask)
  IN IF /\ InBounds(r.size, position)
        /\ WordsInRange(r.block_states, index, required_bits)
        /\ palette_index < Len(r.block_state_palette)
     THEN [ok |-> TRUE,
           region |-> [r EXCEPT !.block_state_palette[palette_index + 1] = ApplyEdit(@, e)]]
     ELSE [ok |-> FALSE, region |-> r]

\* Mutant: the palette is one per file, every region sees the palette of the
\* region written last.
get_region_mut_shared(m, name, r) ==
  [n \in DOMAIN m |->
     IF n = name THEN r ELSE [m[n] EXCEPT !.block_state_palette = r.block_state_palette]]

\* The map after the region borrowed by get_region_mut(name) was left as r.
get_region_mut(m, name, r) == [m EXCEPT ![name] = r]

\* The block states written in the regions of the file: one that the
\* palettes hold and two that they do not.
FileInputs == {Universe[1], Universe[5], Universe[6]}

\* The result of one call, as set_block_on or get_block_mut_on gives it.
CallOn(r, call) ==
  IF call.op = "set_block" THEN set_block_on(r, call.pos, call.arg)
  ELSE get_block_mut_on(r, call.pos, call.arg)

\* The calls a caller makes on a region of size sz.
CallsOn(sz) ==
  {[op |-> "set_block", pos |-> c, arg |-> b] :
     c \in RegionOf(sz).targets, b \in FileInputs}
  \cup {[op |-> "get_block_mut", pos |-> c, arg |-> e] :
          c \in RegionOf(sz).targets, e \in Edits}

\* One Region method call on one region of the file.  output.alone follows
\* what each region becomes under its own calls only; a panic ends the
\* program.
CallRegion ==
  /\ output.op \in {"open", "call"}
  /\ output.result # "panic"
  /\ output.calls < MaxCalls
  /\ \E name \in DOMAIN regions :
       \E call \in CallsOn(regions[name].size) :
         LET res == CallOn(regions[name], call)
         IN /\ regions' = get_region_mut(regions, name, res.region)
            /\ output' = [op |-> "call", name |-> name,
                          result |-> IF res.ok THEN "ok" ELSE "panic",
                          calls |-> output.calls + 1,
                          alone |-> [output.alone EXCEPT
                                       ![name] = CallOn(@, call).region]]
  /\ UNCHANGED <<files, input>>
  /\ UNCHANGED regionVars

\* A file with the regions "a" and "b", of 4 or 22 cells each.
InitTwoRegions ==
  /\ IdleRegion
  /\ regions \in [{"a", "b"} ->
                    {RegionValue(RegionOf(Coord(2, 1, 2))),
                     RegionValue(RegionOf(Coord(11, 0 - 2, 1)))}]
  /\ files = << >>
  /\ input = << >>
  /\ output = [op |-> "open", name |-> "a", result |-> "ok", calls |-> 0,
               alone |-> regions]

NextTwoRegions == CallRegion

SpecTwoRegions == InitTwoRegions /\ [][NextTwoRegions]_vars

(***************************************************************************)
(* Rebuilding a region from what get_block returns: every cell is read    *)
(* into a buffer, the words are zeroed, and every cell is written back    *)
(* with set_block.                                                        *)
(***************************************************************************)
\* The coordinate whose linear index is i.
CellCoord(sz, i) == CHOOSE c \in AllCoords(sz) : get_3d_index(sz, c) = i

RECURSIVE SetAll(_, _, _)
\* set_block(c, buffer[c]) for the cells from linear index i on.
SetAll(r, buffer, i) ==
  IF i >= Volume(r.size) THEN r
  ELSE LET c == CellCoord(r.size, i)
       IN SetAll(set_block_on(r, c, buffer[c].block).region, buffer, i + 1)

\* The whole procedure on the current region.  A get_block that panics ends
\* it before anything is changed.  output keeps the region as it was and
\* whether its bits past the last cell were all zero.
Rebuild ==
  /\ output.op = "none"
  /\ last.result # "panic"
  /\ LET r == [size |-> size, block_state_palette |-> block_state_palette,
               block_states |-> block_states]
         buffer == [c \in AllCoords(size) |-> GetBlock(c)]
         zeroed == [r EXCEPT !.block_states = [k \in 1 .. Len(block_states) |-> {}]]
         padding == {p \in (Volume(size) * calc_required_bits(block_state_palette))
                             .. (WordBits * Len(block_states) - 1) :
                       (p % WordBits) \in block_states[(p \div WordBits) + 1]}
     IN IF \A c \in AllCoords(size) : buffer[c].ok
        THEN LET rebuilt == SetAll(zeroed, buffer, 0)
             IN /\ block_state_palette' = rebuilt.block_state_palette
                /\ block_states' = rebuilt.block_states
                /\ output' = [op |-> "rebuild", result |-> "ok", before |-> r,
                              padding_zero |-> padding = {}]
        ELSE /\ UNCHANGED <<block_state_palette, block_states>>
             /\ output' = [op |-> "rebuild", result |-> "panic", before |-> r,
                           padding_zero |-> padding = {}]
  /\ UNCHANGED <<size, cells, novel, mutations, last>>
  /\ UNCHANGED <<regions, files, input>>

\* The regions of 1, 4 and 22 cells.
InitRebuild == Init /\ Volume(size) \in {1, 4, 22}

NextRebuild == (output.op = "none" /\ SetBlock) \/ Rebuild

SpecRebuild == InitRebuild /\ [][NextRebuild]_vars

(***************************************************************************)
(* ResourceLocation (src/resource_location.rs).  A string is the sequence *)
(* of its characters.                                                     *)
(***************************************************************************)
\* Longest resource string handed to parse, in characters.
MaxChars == 4

\* The characters of the strings handed to parse: a letter, a punctuation
\* mark both components accept, the path separator, the colon, a character
\* no component accepts, and a letter outside ASCII.
ResourceChars == {"a", ".", "/", ":", "!", "é"}

\* char::is_ascii_alphanumeric on the characters in use: the letters of
\* "minecraft", an upper-case letter and a digit are, the others are not.
is_ascii_alphanumeric(c) ==
  c \in {"a", "c", "e", "f", "i", "m", "n", "r", "t", "Z", "7"}

minecraft == << "m", "i", "n", "e", "c", "r", "a", "f", "t" >>

ResourceLocation(namespace, path) == [namespace |-> namespace, path |-> path]

ParseError == [ok |-> FALSE, error |-> "ParseError"]

ParseOk(r) == [ok |-> TRUE, value |-> r]

\* str::splitn(2, ':') : the string, or its part before the first ':' and
\* the whole rest after it.
splitn2(resource) ==
  LET colons == IndicesOf(resource, ":")
  IN IF colons = {} THEN << resource >>
     ELSE LET i == CHOOSE j \in colons : \A k \in colons : j <= k
          IN << SubSeq(resource, 1, i - 1), SubSeq(resource, i + 1, Len(resource)) >>

\* Mutant: the namespace accepts '/' as the path does.
is_valid_namespace_slash(namespace) ==
  IF namespace = << >> THEN FALSE
  ELSE \A k \in 1 .. Len(namespace) :
         LET c == namespace[k]
         IN is_ascii_alphanumeric(c) \/ c = "_" \/ c = "-" \/ c = "/" \/ c = "."

is_valid_namespace(namespace) ==
  IF namespace = << >> THEN FALSE
  ELSE \A k \in 1 .. Len(namespace) :
         LET c == namespace[k]
         IN is_ascii_alphanumeric(c) \/ c = "_" \/ c = "-" \/ c = "."

is_valid_path(path) ==
  IF path = << >> THEN FALSE
  ELSE \A k \in 1 .. Len(path) :
         LET c == path[k]
         IN is_ascii_alphanumeric(c) \/ c = "_" \/ c = "-" \/ c = "/" \/ c = "."

\* ResourceLocation::parse.
parse(resource) ==
  LET split == splitn2(resource)
      first == split[1]
  IN IF Len(split) = 2
     THEN LET second == split[2]
          IN IF ~is_valid_namespace(first) THEN ParseError
             ELSE IF ~is_valid_path(second) THEN ParseError
             ELSE ParseOk(ResourceLocation(first, second))
     ELSE IF ~is_valid_path(first) THEN ParseError
          ELSE ParseOk(ResourceLocation(minecraft, first))

\* Mutant: the path is written before the namespace.
to_string_swapped(r) == r.path \o << ":" >> \o r.namespace

\* Display for ResourceLocation: "{namespace}:{path}".
to_string(r) == r.namespace \o << ":" >> \o r.path

\* ResourceLocation::new(namespace, path), the two strings being the parts
\* of the caller's string on either side of some position; it panics when an
\* assert on the namespace or the path fails.
New ==
  /\ output.op = "none"
  /\ \E k \in 0 .. Len(input) :
       LET namespace == SubSeq(input, 1, k)
           path == SubSeq(input, k + 1, Len(input))
       IN output' = [op |-> "new",
                     result |-> IF is_valid_namespace(namespace) /\ is_valid_path(path)
                                THEN ParseOk(ResourceLocation(namespace, path))
                                ELSE [ok |-> FALSE, error |-> "panic"],
                     of |-> None, from |-> None]
  /\ UNCHANGED <<regions, files, input>>
  /\ UNCHANGED regionVars

\* parse(input); `of` is the ResourceLocation whose to_string the input is,
\* when the input was produced by to_string.
Parse ==
  /\ output.op \in {"none", "to_string"}
  /\ output' = [op |-> "parse", result |-> parse(input),
                of |-> IF output.op = "to_string" THEN Some(output.result.value)
                       ELSE None,
                from |-> None]
  /\ UNCHANGED <<regions, files, input>>
  /\ UNCHANGED regionVars

\* to_string of the ResourceLocation last built or parsed; the string
\* becomes the caller's string, `from` is the string it was parsed from.
Display ==
  /\ output.op \in {"new", "parse"}
  /\ output.result.ok
  /\ input' = to_string(output.result.value)
  /\ output' = [op |-> "to_string", result |-> output.result, of |-> None,
                from |-> IF output.op = "parse" THEN Some(input) ELSE None]
  /\ UNCHANGED <<regions, files>>
  /\ UNCHANGED regionVars

InitParse ==
  /\ IdleRegion
  /\ regions = << >>
  /\ files = << >>
  /\ input \in Strings(ResourceChars, MaxChars)
  /\ output = [op |-> "none", result |-> ParseError, of |-> None, from |-> None]

NextParse == New \/ Parse \/ Display

SpecParse == InitParse /\ [][NextParse]_vars

(***************************************************************************)
(* Two set_block calls on distinct cells, made in both orders on the      *)
(* region that a short sequence of set_block calls has produced.          *)
(***************************************************************************)
\* Number of set_block calls made before the two orders are compared.
MaxPrefix == 1

\* The region as a value.
ThisRegion ==
  [size |-> size, block_state_palette |-> block_state_palette,
   block_states |-> block_states]

\* set_block(c1, s1) followed by set_block(c2, s2) on the region r; a panic
\* of the first call ends the program.
set_block_twice(r, c1, s1, c2, s2) ==
  LET first == set_block_on(r, c1, s1)
  IN IF first.ok THEN set_block_on(first.region, c2, s2) ELSE first

\* One set_block of the sequence that precedes the comparison.
PrefixSetBlock ==
  /\ output.op = "prefix"
  /\ output.calls < MaxPrefix
  /\ last.result # "panic"
  /\ \E position \in RegionOf(size).targets, block \in Inputs(size) :
       set_block(position, block)
  /\ output' = [output EXCEPT !.calls = @ + 1]
  /\ UNCHANGED <<regions, files, input>>

\* Both orders of two set_block calls on two copies of the region.
SetBlockBothOrders ==
  /\ output.op = "prefix"
  /\ last.result # "panic"
  /\ \E c1 \in RegionOf(size).targets, c2 \in RegionOf(size).targets :
       \E s1 \in Inputs(size), s2 \in Inputs(size) :
         LET known(s) == Position(block_state_palette, s) # 0
             appends == Cardinality({s \in {s1, s2} : ~known(s)})
         IN /\ c1 # c2
            /\ novel + appends <= MaxNovel
            /\ output' = [op |-> "set_block twice", c1 |-> c1, s1 |-> s1,
                          c2 |-> c2, s2 |-> s2,
                          known |-> known(s1) /\ known(s2),
                          forward |-> set_block_twice(ThisRegion, c1, s1, c2, s2),
                          backward |-> set_block_twice(ThisRegion, c2, s2, c1, s1)]
  /\ UNCHANGED regionVars
  /\ UNCHANGED <<regions, files, input>>

\* A region of more than one cell, before any call.
InitCommute ==
  /\ \E r \in Regions :
       /\ Cardinality(r.targets) > 1
       /\ size = r.size
       /\ block_state_palette = r.palette
       /\ block_states = r.states
       /\ cells = [c \in AllCoords(r.size) |->
                     get_block(r.size, r.palette, r.states, c).block]
  /\ novel = 0
  /\ mutations = 0
  /\ last = Record("new", Coord(0, 0, 0), "ok", FALSE, 0, FALSE)
  /\ regions = << >>
  /\ files = << >>
  /\ input = << >>
  /\ output = [op |-> "prefix", calls |-> 0]

NextCommute == PrefixSetBlock \/ SetBlockBothOrders

SpecCommute == InitCommute /\ [][NextCommute]_vars

(***************************************************************************)
(* Properties.  The packed array is read here by the definition of the    *)
(* data model (unsigned fields, little-endian within words), not by the   *)
(* code's get_palette_index.                                              *)
(***************************************************************************)
\* Bit p of the packed array, as 0 or 1.
BitAt(states, p) == IF (p % WordBits) \in states[(p \div WordBits) + 1] THEN 1 ELSE 0

RECURSIVE FieldFrom(_, _, _)
\* The unsigned number held by the n bits from bit position p upward.
FieldFrom(states, p, n) ==
  IF n = 0 THEN 0 ELSE BitAt(states, p) + 2 * FieldFrom(states, p + 1, n - 1)

\* The unsigned B-bit field of cell i.
Field(states, i, B) == FieldFrom(states, i * B, B)

Cells == 0 .. (Volume(size) - 1)

CurrentBits == calc_required_bits(block_state_palette)

SetBlockDone == last.op = "set_block" /\ last.result = "ok"

Range(s) == {s[k] : k \in 1 .. Len(s)}

\* get_block on the region as the step leaves it.
GetBlockNext(position) ==
  get_block(size', block_state_palette', block_states', position)

\* C1: after any sequence of in-bounds set_block calls, get_block of every
\* in-bounds cell returns the state of the most recent set_block to that
\* cell, or the cell's initial state when it was never written.
C1_LastWriteWins ==
  last.result = "ok" => \A c \in AllCoords(size) : GetBlock(c) = Ok(cells[c])

\* C2: get_block(c) right after set_block(c, s) returns s, for cells that
\* straddle two words as for the others, for s in the palette or novel.
C2_ReadBackWritten ==
  SetBlockDone => GetBlock(last.pos) = Ok(cells[last.pos])

\* C3: set_block(c1, s1) leaves what get_block returns at every other
\* in-bounds cell unchanged, with or without widening.
C3_OtherCellsUnchanged ==
  [][(last'.op = "set_block" /\ last'.result = "ok")
       => \A c2 \in AllCoords(size) \ {last'.pos} : GetBlockNext(c2) = GetBlock(c2)]_vars

\* C4: the packed array holds exactly ceil(V*B/64) words after every
\* set_block, B being recomputed from the palette length at that moment.
C4_ArrayLength ==
  Len(block_states) = (Volume(size) * CurrentBits + (WordBits - 1)) \div WordBits

\* C4 witness: a set_block has repacked a one-word array into two words.
C4_Witness ==
  /\ SetBlockDone /\ last.widened
  /\ Volume(size) = 22 /\ CurrentBits = 3 /\ Len(block_states) = 2

\* C5: calc_required_bits returns the smallest B >= 2 with 2^B >= P: 2 for
\* P in 0..4, 3 for P in 5..8, 4 for P in 9..16, and so on.
C5_SmallestBits ==
  last.op = "calc_required_bits" =>
    LET P == Len(block_state_palette)
        B == last.bits
    IN /\ B >= 2
       /\ 2 ^ B >= P
       /\ B > 2 => 2 ^ (B - 1) < P
       /\ P <= 4 => B = 2
       /\ P \in 5 .. 8 => B = 3
       /\ P \in 9 .. 16 => B = 4

\* C5 witness: the bits of a palette of eight entries (a power of two is
\* reached, not exceeded) and of nine have been computed.
C5_Witness ==
  /\ last.op = "calc_required_bits"
  /\ \/ Len(block_state_palette) = 8 /\ last.bits = 3
     \/ Len(block_state_palette) = 9 /\ last.bits = 4

\* C6: in every state reached by set_block calls, the unsigned B-bit field
\* of every cell is below the palette length.
C6_FieldsBelowPaletteLength ==
  \A i \in Cells : Field(block_states, i, CurrentBits) < Len(block_state_palette)

\* C6 witness: a set_block wrote the last palette index into the cell that
\* straddles words 0 and 1.
C6_Witness ==
  /\ SetBlockDone /\ CurrentBits = 3 /\ Volume(size) = 24
  /\ last.pos = Coord(1, 2, 2)
  /\ Field(block_states, 21, 3) = Len(block_state_palette) - 1

\* C7: right after a set_block that widens, every bit of the array at bit
\* position >= V*B is zero, whatever those bits held before.
C7_PaddingZeroAfterWidening ==
  (SetBlockDone /\ last.widened) =>
    \A p \in (Volume(size) * CurrentBits) .. (WordBits * Len(block_states) - 1) :
      BitAt(block_states, p) = 0

\* C7 witness: a set_block has widened an array whose unaddressed bits were
\* set before.
C7_Witness == SetBlockDone /\ last.widened /\ Volume(size) \in {4, 22, 24}

\* C8: each set_block keeps the previous palette as a prefix, appends exactly
\* the new state when no entry equals it and leaves the palette unchanged
\* when one does.
C8_PaletteAppendOnly ==
  [][/\ Len(block_state_palette') >= Len(block_state_palette)
     /\ SubSeq(block_state_palette', 1, Len(block_state_palette)) = block_state_palette
     /\ (last'.op = "set_block" /\ last'.result = "ok") =>
          IF cells'[last'.pos] \in Range(block_state_palette)
          THEN block_state_palette' = block_state_palette
          ELSE block_state_palette' = Append(block_state_palette, cells'[last'.pos])
    ]_vars

\* C8 witness: two states have been appended, and a set_block of a state
\* that is in the palette followed.
C8_Witness == SetBlockDone /\ novel = 2 /\ last.same /\ Len(block_state_palette) = 6

\* C9: palette entries are pairwise distinct after any sequence of Region
\* operations (set_block, and mutation through get_block_mut).
C9_PaletteDistinct ==
  \A i, j \in 1 .. Len(block_state_palette) :
    i # j => block_state_palette[i] # block_state_palette[j]

\* C10: set_block(c, s) with s equal to what get_block(c) returns leaves
\* get_block unchanged at every in-bounds cell; the palette grows by zero or
\* one entry.
C10_RewriteIsNoOp ==
  [][(last'.op = "set_block" /\ last'.result = "ok" /\ last'.same)
       => /\ \A c \in AllCoords(size) : GetBlockNext(c) = GetBlock(c)
          /\ Len(block_state_palette') - Len(block_state_palette) \in {0, 1}]_vars

\* C10 witness: the straddling cell was rewritten with the state it held
\* while three bits were in use.
C10_Witness ==
  /\ SetBlockDone /\ last.same /\ Volume(size) = 24 /\ CurrentBits = 3
  /\ last.pos = Coord(1, 2, 2)

\* C11: get_block, get_block_mut and set_block called with a coordinate that
\* has a component outside [0, |size.c|) fail with an OutOfBounds error that
\* the caller receives as a value, and leave the palette and the packed
\* array unchanged.
C11_OutOfBoundsIsError ==
  (last.op \in {"set_block", "get_block_mut"} /\ ~InBounds(size, last.pos)) =>
    /\ last.result = "OutOfBounds"
    /\ GetBlock(last.pos) = [ok |-> FALSE, error |-> "OutOfBounds"]

\* C12: on a well-formed region, set_block at an in-bounds coordinate
\* completes without failure, also when it widens the array and when the
\* cell straddles two words.
C12_SetBlockNeverFails ==
  (last.op = "set_block" /\ InBounds(size, last.pos)) => last.result = "ok"

\* C12 witness: a set_block widened a one-word array to two words and wrote
\* the cell that straddles them.
C12_Witness ==
  /\ SetBlockDone /\ last.widened /\ Volume(size) = 22 /\ last.bits = 3
  /\ last.pos = Coord(10, 1, 0)

\* The unsigned field the packed array holds for the cell at position.
StoredIndex(position) == Field(block_states, get_3d_index(size, position), CurrentBits)

\* C13: mutating the BlockState borrowed by get_block_mut(c) to s' makes
\* get_block return s' at exactly the cells whose stored palette index equals
\* that of c, leaves get_block unchanged at every other cell, and leaves the
\* packed array and the palette length unchanged.
C13_MutationReachesSameIndexCells ==
  [][(last'.op = "get_block_mut" /\ last'.result = "ok") =>
       LET i == StoredIndex(last'.pos)
       IN /\ \E e \in Edits :
               \A c2 \in AllCoords(size) :
                 GetBlockNext(c2) =
                   IF StoredIndex(c2) = i
                   THEN Ok(ApplyEdit(block_state_palette[i + 1], e))
                   ELSE GetBlock(c2)
          /\ block_states' = block_states
          /\ Len(block_state_palette') = Len(block_state_palette)]_vars

\* C14: write called with a path whose extension is not "litematic" (another
\* extension, or none) fails with the invalid-path error before the file is
\* created, so that no file is created or truncated; read succeeds or fails
\* by the file's existence and content alone, whatever the extension.
C14_WriteChecksExtension ==
  [][/\ (output'.op = "write" /\ extension(input) # Some(<< "litematic" >>)) =>
          /\ output'.result = "Io" /\ output'.kind = "InvalidInput"
          /\ files' = files
     /\ output'.op = "read" =>
          (output'.result = "ok" <=>
             (input \in DOMAIN files /\ files[input] # "partial"))]_vars

\* C15: rename_region(old, new) leaves the map unchanged when old is not a
\* key (also when new is one); when old is a key, new then maps to the region
\* that was under old (replacing what was under new), old is a key afterwards
\* only when old = new, and every other entry is unchanged.
C15_RenameRegion ==
  [][output'.op = "rename_region" =>
       LET old == output'.old
           new == output'.new
       IN IF old \notin DOMAIN regions
          THEN regions' = regions
          ELSE /\ new \in DOMAIN regions'
               /\ regions'[new] = regions[old]
               /\ (old \in DOMAIN regions') <=> (old = new)
               /\ \A n \in RegionNames \ {old, new} :
                    /\ (n \in DOMAIN regions') <=> (n \in DOMAIN regions)
                    /\ n \in DOMAIN regions => regions'[n] = regions[n]]_vars

\* C15 witness: a rename has replaced the region stored under another name
\* while a third entry was present.
C15_Witness ==
  /\ output.op = "rename_region" /\ output.found
  /\ output.old # output.new /\ output.replaced
  /\ DOMAIN regions = RegionNames \ {output.old}

\* The characters [A-Za-z0-9_.-] and [A-Za-z0-9_./-] among those in use.
NamespaceClass ==
  {"m", "i", "n", "e", "c", "r", "a", "f", "t", "Z", "7", "_", ".", "-"}

PathClass == NamespaceClass \cup {"/"}

\* A namespace and path as the data model defines them: non-empty, every
\* character in its class.
ValidId(r) ==
  /\ r.namespace # << >> /\ \A k \in 1 .. Len(r.namespace) : r.namespace[k] \in NamespaceClass
  /\ r.path # << >> /\ \A k \in 1 .. Len(r.path) : r.path[k] \in PathClass

\* The pair the claim assigns to s: split at the first ':', or (minecraft, s).
SplitId(s) ==
  IF \E i \in 1 .. Len(s) : s[i] = ":"
  THEN LET i == CHOOSE j \in 1 .. Len(s) :
                  s[j] = ":" /\ \A k \in 1 .. (j - 1) : s[k] # ":"
       IN ResourceLocation(SubSeq(s, 1, i - 1), SubSeq(s, i + 1, Len(s)))
  ELSE ResourceLocation(minecraft, s)

\* C16: parse(s) splits s at the first ':' (no ':' gives (minecraft, s)); it
\* succeeds with that pair iff the namespace is non-empty with characters in
\* [A-Za-z0-9_.-] and the path is non-empty with characters in
\* [A-Za-z0-9_./-], and returns an error without a value otherwise.
C16_ParseAcceptsExactlyValidIds ==
  output.op = "parse" =>
    IF ValidId(SplitId(input))
    THEN output.result = ParseOk(SplitId(input))
    ELSE output.result = ParseError

\* C16 witness: a string with a namespace and a path holding '/' was parsed
\* into that pair.
C16_Witness ==
  /\ output.op = "parse" /\ input = << "a", ":", "/", "a" >>
  /\ output.result = ParseOk(ResourceLocation(<< "a" >>, << "/", "a" >>))

\* C17: for a valid ResourceLocation r, parse(to_string(r)) succeeds with r;
\* for a string s that parse accepts, to_string(parse(s)) is s when s holds a
\* ':' and "minecraft:" followed by s otherwise.
C17_DisplayParseRoundTrip ==
  /\ (output.op = "parse" /\ output.of.some /\ ValidId(output.of.value)) =>
       output.result = ParseOk(output.of.value)
  /\ (output.op = "to_string" /\ output.from.some) =>
       input = IF \E i \in 1 .. Len(output.from.value) : output.from.value[i] = ":"
               THEN output.from.value
               ELSE minecraft \o << ":" >> \o output.from.value

\* C17 witness: the string of a ResourceLocation built by new, with a
\* namespace other than minecraft and a path holding '/', was parsed.
C17_Witness ==
  /\ output.op = "parse" /\ output.of.some /\ output.result.ok
  /\ output.of.value = ResourceLocation(<< "a" >>, << "/", "a", "." >>)

\* C18: find_positions(pattern) yields exactly the in-bounds coordinates
\* whose get_block state satisfies the pattern, each once, in strictly
\* increasing linear-index order, and the enumeration ends.
C18_FindPositionsOrdered ==
  output.op = "find_positions" =>
    LET found == output.result.yielded
    IN /\ ~output.result.panicked
       /\ Range(found) = {c \in AllCoords(size) :
                            GetBlock(c).ok /\ matches(output.pattern, GetBlock(c).block)}
       /\ \A j, k \in 1 .. Len(found) :
            j < k => get_3d_index(size, found[j]) < get_3d_index(size, found[k])

C20_RebuildReproduces ==
  (output.op = "rebuild" /\ output.padding_zero) =>
    /\ output.result = "ok"
    /\ block_states = output.before.block_states
    /\ block_state_palette = output.before.block_state_palette

\* C21: get_palette_index returns the unsigned B-bit field at bit position
\* i*B of the word array, for fields within one word and for fields that
\* straddle two, whatever bit 63 of either word holds.
C21_ReadsUnsignedField ==
  \A i \in Cells :
    get_palette_index(block_states, i, CurrentBits, MaskOf(CurrentBits))
      = Field(block_states, i, CurrentBits)

\* C22: set_block_index(words, i, value, B, mask) with value < 2^B sets the B
\* bits at positions [i*B, i*B+B) to the bits of value and leaves every other
\* bit of every word as it was, for a straddling write too.
C22_WriteChangesOnlyItsField ==
  output.op = "set_block_index" =>
    LET lo == output.index * output.bits
    IN \A p \in 0 .. (WordBits * Len(block_states) - 1) :
         BitAt(block_states, p) =
           IF p >= lo /\ p < lo + output.bits
           THEN (output.value \div (2 ^ (p - lo))) % 2
           ELSE BitAt(output.before, p)

\* C22 witness: a 5-bit write at bit position 60 (four bits in the low word,
\* one carried into the high word) into words that were all ones.
C22_Witness ==
  /\ output.op = "set_block_index" /\ output.bits = 5 /\ output.index = 12
  /\ output.value = 10 /\ output.before = << BitIdx, BitIdx >>

\* C23: when set_block widens from B_old to B_old + 1, the unsigned field of
\* every cell in the new array equals its unsigned field in the old array
\* (the target cell, written after the repacking, aside), also for a cell
\* whose old field straddled two words.
C23_WideningCopiesFields ==
  [][(last'.op = "set_block" /\ last'.result = "ok" /\ last'.widened) =>
       \A k \in Cells \ {get_3d_index(size, last'.pos)} :
         Field(block_states', k, last'.bits) = Field(block_states, k, last'.bits - 1)]_vars

\* The magnitude of a size component.
Magnitude(n) == IF n >= 0 THEN n ELSE 0 - n

\* C24: the linear index of an in-bounds (x, y, z) is
\* y*(|size.x|*|size.z|) + z*|size.x| + x, so that a region with negative
\* size components addresses its cells as the region with the positive ones.
C24_LinearIndexFormula ==
  (output.op = "get_3d_index" /\ output.result = "ok") =>
    LET sx == Magnitude(size.x)
        sy == Magnitude(size.y)
        sz == Magnitude(size.z)
        c == output.coords
    IN /\ output.index = c.y * (sx * sz) + c.z * sx + c.x
       /\ output.index = get_3d_index(Coord(sx, sy, sz), c)

\* C24 witness: the index of the last cell of a region whose three size
\* components are negative and differ.
C24_Witness ==
  /\ output.op = "get_3d_index" /\ output.result = "ok"
  /\ size = Coord(0 - 2, 0 - 3, 0 - 1) /\ output.coords = Coord(1, 2, 0)
  /\ output.index = 5

\* The in-bounds coordinates of the region, by the definition of the claim.
InBoundsCoordinates ==
  {Coord(x, y, z) : x \in 0 .. (Magnitude(size.x) - 1),
                    y \in 0 .. (Magnitude(size.y) - 1),
                    z \in 0 .. (Magnitude(size.z) - 1)}

\* C27: the linear index is a bijection from the in-bounds coordinates onto
\* [0, V): the coordinate of the call shares its index with no other
\* coordinate, every index is below V and every number below V is an index,
\* so the field of the cell overlaps the field of no other cell and does
\* not extend past word ceil(V*B/64) - 1.
C27_LinearIndexBijection ==
  (output.op = "get_3d_index" /\ output.result = "ok") =>
    LET V == Magnitude(size.x) * Magnitude(size.y) * Magnitude(size.z)
        idx(c) == get_3d_index(size, c)
        i == output.index
    IN /\ \A c \in InBoundsCoordinates \ {output.coords} : idx(c) # i
       /\ {idx(c) : c \in InBoundsCoordinates} = 0 .. (V - 1)
       /\ \A B \in 2 .. MaxBits :
            /\ \A c \in InBoundsCoordinates \ {output.coords} :
                 (i + 1) * B <= idx(c) * B \/ (idx(c) + 1) * B <= i * B
            /\ ((i + 1) * B - 1) \div WordBits
                 <= ((V * B + (WordBits - 1)) \div WordBits) - 1

\* C27 witness: the index of the last cell of a region whose x and z sizes
\* differ.
C27_Witness ==
  /\ output.op = "get_3d_index" /\ output.result = "ok"
  /\ size = Coord(3, 0 - 3, 0 - 2) /\ output.coords = Coord(2, 2, 1)
  /\ output.index = 17

\* C25: after any sequence of set_block calls, get_block succeeds at every
\* in-bounds coordinate: the palette index it computes for the cell is less
\* than the palette length.
C25_GetBlockNeverOutOfRange ==
  SetBlockDone =>
    \A c \in AllCoords(size) :
      /\ get_palette_index(block_states, get_3d_index(size, c), CurrentBits,
                           MaskOf(CurrentBits)) < Len(block_state_palette)
      /\ GetBlock(c).ok

RECURSIVE PowerOfTwo(_)
\* n is 1, 2, 4, 8, ...
PowerOfTwo(n) == n = 1 \/ (n > 1 /\ n % 2 = 0 /\ PowerOfTwo(n \div 2))

\* C26: set_block repacks the array exactly when the append of the novel
\* state changes calc_required_bits of the palette, which is when the length
\* before the append is a power of two >= 4; the width then grows by exactly
\* one bit and the cell is written at the new width.  After every set_block
\* the array is packed at calc_required_bits of the current palette: it has
\* the word count of that width and the field of the written cell at that
\* width is the palette index of the state.
C26_RepackExactlyOnWidthChange ==
  [][(last'.op = "set_block" /\ last'.result = "ok") =>
       LET before == Len(block_state_palette)
           appended == Len(block_state_palette') = before + 1
           B == calc_required_bits(block_state_palette)
           B2 == calc_required_bits(block_state_palette')
           i == get_3d_index(size, last'.pos)
       IN /\ last'.widened <=> B2 # B
          /\ last'.widened <=>
               (appended /\ before >= 4 /\ PowerOfTwo(before))
          /\ last'.widened => B2 = B + 1
          /\ last'.bits = B2
          /\ Len(block_states') = (Volume(size) * B2 + (WordBits - 1)) \div WordBits
          /\ Field(block_states', i, B2) < Len(block_state_palette')
          /\ block_state_palette'[Field(block_states', i, B2) + 1] = cells'[last'.pos]
    ]_vars

\* C26 witness: the ninth palette entry was appended and the array of 24
\* cells repacked from three to four bits, the cell written at four bits.
C26_Witness ==
  /\ SetBlockDone /\ last.widened /\ last.bits = 4
  /\ Volume(size) = 24 /\ Len(block_state_palette) = 9 /\ CurrentBits = 4

\* C28: for distinct in-bounds cells c1 # c2 and any states s1, s2,
\* set_block(c1, s1) then set_block(c2, s2) gives the same get_block at every
\* cell as the opposite order; when both states are in the palette the
\* palette and the packed array are the same as well.
C28_SetBlockCommutes ==
  (output.op = "set_block twice" /\ output.forward.ok /\ output.backward.ok) =>
    LET f == output.forward.region
        b == output.backward.region
    IN /\ \A c \in AllCoords(size) :
            get_block(f.size, f.block_state_palette, f.block_states, c)
              = get_block(b.size, b.block_state_palette, b.block_states, c)
       /\ output.known =>
            /\ f.block_state_palette = b.block_state_palette
            /\ f.block_states = b.block_states

====
